---- MODULE Spec2Model ----
(***************************************************************************)
(* A model of the comment stripper demo/uncomment.c, an automaton written  *)
(* with the fsm macros of src/fsm.h.  Every fsmstate block of uncomment()  *)
(* is one action; fsmgoto sets the program counter pc to the target state  *)
(* and fsmexit sets it to "fsm_exit".  Characters are one-character        *)
(* strings and the value EOF of <stdio.h> is the string "EOF".             *)
(*                                                                         *)
(* The second automaton is the integer scanner of demo/numbers.c, modelled *)
(* at the level of the statements the fsm macros expand to: its program    *)
(* counter npc ranges over the state bodies, the `if (1) goto fsm_exit`    *)
(* guards of fsmstate, the statements between the states and the fsm_exit  *)
(* label.  Spec runs uncomment(), NumSpec runs main() of numbers.c; the    *)
(* variables of the program that does not run keep their idle values.      *)
(***************************************************************************)
EXTENDS Integers, Sequences, FiniteSets, TLC

VARIABLES
  input,   \* the whole content of the stream `in`, fixed for a run
  pos,     \* the number of characters fgetc has taken from `in`
  pc,      \* the fsm state control is in (the label last jumped to)
  c,       \* the variable `int c` of uncomment()
  out,     \* the characters written to `out` so far
  src,     \* history: src[k] is the index in input of the character out[k] copies
  readIn,  \* history: readIn[i] is the state whose fgetc call was the i-th call
  arg,     \* numbers.c: the string `in` points to, without its terminating NUL
  cur,     \* numbers.c: `cur` as an index, arg[cur] for 1..Len(arg), the NUL at Len(arg)+1
  num,     \* numbers.c: `int num`
  sign,    \* numbers.c: `int sign`
  npc,     \* numbers.c: the statement control is at
  err,     \* numbers.c: what was printed to stderr
  tail,    \* numbers.c: the bytes found in memory after the terminating NUL
  oob,     \* history: a byte after the terminating NUL was read
  trail    \* history: the values npc has taken

uvars == <<input, pos, pc, c, out, src, readIn>>

nvars == <<arg, cur, num, sign, npc, err, tail, oob, trail>>

vars == <<input, pos, pc, c, out, src, readIn,
          arg, cur, num, sign, npc, err, tail, oob, trail>>

\* --------------------------------------------------------------- bounds
\* Longest input enumerated exhaustively over Alphabet.
MaxLen == 4

\* ----------------------------------------------------------- characters
EOF == "EOF"
DQ  == "\""
SQ  == "'"
BS  == "\\"
NL  == "\n"

Alphabet == {"/", "*", DQ, SQ, BS, NL, "a"}

\* The sample inputs of the demo's contract, longer than MaxLen.
InEscapedQuote ==
  <<"x", " ", "=", " ", DQ, "a", BS, DQ, "b", DQ, ";", " ", "/", "/", " ", "c">>
InLineComment ==
  <<"a", "/", "/", "c", "o", "m", "m", "e", "n", "t", NL, "b">>
InBlockStars == <<"a", "/", "*", "*", "*", "/", "b">>
InDivision == <<"a", "/", "b">>
InSlashString == <<"/", DQ, "/", "/", "x", DQ>>
InSlashChar == <<"/", SQ, "/", "*", SQ, "a">>
InUnterminated ==
  <<"c", "o", "d", "e", " ", "/", "*", " ", "u", "n", "t", "e", "r", "m",
    "i", "n", "a", "t", "e", "d">>
InInertMarkers ==
  <<"s", "=", DQ, "/", "*", " ", "n", "o", " ", "*", "/", DQ, ";">>
InEscapeThenMarkers == <<DQ, BS, "a", SQ, "/", "/", DQ>>
InBlockLines == <<"a", "/", "*", "x", NL, "y", "*", "/", "b">>

Samples ==
  { InEscapedQuote, InLineComment, InBlockStars, InDivision, InSlashString,
    InSlashChar, InUnterminated, InInertMarkers, InEscapeThenMarkers,
    InBlockLines }

Inputs == (UNION { [1..n -> Alphabet] : n \in 0..MaxLen }) \cup Samples

States ==
  { "START", "code", "code_char", "slash", "string", "literal", "escaped",
    "line_comment", "block_comment", "star" }

\* ------------------------------------------------------------- stdio, fsm
\* The value the next fgetc(in) returns.
fgetc == IF pos < Len(input) THEN input[pos + 1] ELSE EOF

\* `(c = fgetc(in))` executed in state st: c takes the value, the stream
\* advances unless it is exhausted.
Read(st) ==
  /\ c' = fgetc
  /\ pos' = IF pos < Len(input) THEN pos + 1 ELSE pos
  /\ readIn' = Append(readIn, st)

\* fputc(ch, out) for a character that copies input[p].
fputc(ch, p) ==
  /\ out' = Append(out, ch)
  /\ src' = Append(src, p)

fsmgoto(s) == pc' = s

fsmexit == pc' = "fsm_exit"

\* ------------------------------------------------------------------ Init
\* `int c` is declared inside the fsm block and entered by a jump: its value
\* is indeterminate until the first fgetc.
\* main() of numbers.c is not running.
NumIdle ==
  /\ arg = <<>>
  /\ cur = 0
  /\ num = 0
  /\ sign = 1
  /\ npc = "none"
  /\ err = <<>>
  /\ tail = <<>>
  /\ oob = FALSE
  /\ trail = <<>>

Init ==
  /\ input \in Inputs
  /\ pos = 0
  /\ pc = "START"
  /\ c \in Alphabet \cup {EOF}
  /\ out = <<>>
  /\ src = <<>>
  /\ readIn = <<>>
  /\ NumIdle

\* ---------------------------------------------------------------- states
START ==
  /\ pc = "START"
  /\ fsmgoto("code")
  /\ UNCHANGED <<input, pos, c, out, src, readIn>>
  /\ UNCHANGED nvars

code ==
  /\ pc = "code"
  /\ Read("code")
  /\ IF c' = EOF THEN fsmexit
     ELSE IF c' = "/" THEN fsmgoto("slash")
     ELSE fsmgoto("code_char")
  /\ UNCHANGED <<input, out, src>>
  /\ UNCHANGED nvars

\* code_char with the fputc moved into the two quote branches.
code_char_quotesOnly ==
  /\ pc = "code_char"
  /\ IF c = DQ THEN fputc(c, pos) /\ fsmgoto("string")
     ELSE IF c = SQ THEN fputc(c, pos) /\ fsmgoto("literal")
     ELSE fsmgoto("code") /\ UNCHANGED <<out, src>>
  /\ UNCHANGED <<input, pos, c, readIn>>
  /\ UNCHANGED nvars

code_char ==
  /\ pc = "code_char"
  /\ fputc(c, pos)
  /\ IF c = DQ THEN fsmgoto("string")
     ELSE IF c = SQ THEN fsmgoto("literal")
     ELSE fsmgoto("code")
  /\ UNCHANGED <<input, pos, c, readIn>>
  /\ UNCHANGED nvars

\* slash without the fputc of the deferred '/'.
slash_noFlush ==
  /\ pc = "slash"
  /\ Read("slash")
  /\ IF c' = EOF THEN fsmexit
     ELSE IF c' = "/" THEN fsmgoto("line_comment")
     ELSE IF c' = "*" THEN fsmgoto("block_comment")
     ELSE fsmgoto("code_char")
  /\ UNCHANGED <<input, out, src>>
  /\ UNCHANGED nvars

\* slash that writes the character itself and returns to code, with no
\* dispatch on quotes.
slash_noDispatch ==
  /\ pc = "slash"
  /\ Read("slash")
  /\ IF c' = EOF THEN fsmexit /\ UNCHANGED <<out, src>>
     ELSE IF c' = "/" THEN fsmgoto("line_comment") /\ UNCHANGED <<out, src>>
     ELSE IF c' = "*" THEN fsmgoto("block_comment") /\ UNCHANGED <<out, src>>
     ELSE /\ out' = out \o <<"/", c'>>
          /\ src' = src \o <<pos, pos'>>
          /\ fsmgoto("code")
  /\ UNCHANGED input
  /\ UNCHANGED nvars

\* slash that writes the deferred '/' when end-of-stream follows it.
slash_flushAtEof ==
  /\ pc = "slash"
  /\ Read("slash")
  /\ IF c' = EOF THEN fputc("/", pos) /\ fsmexit
     ELSE IF c' = "/" THEN fsmgoto("line_comment") /\ UNCHANGED <<out, src>>
     ELSE IF c' = "*" THEN fsmgoto("block_comment") /\ UNCHANGED <<out, src>>
     ELSE fputc("/", pos) /\ fsmgoto("code_char")
  /\ UNCHANGED input
  /\ UNCHANGED nvars

slash ==
  /\ pc = "slash"
  /\ Read("slash")
  /\ IF c' = EOF THEN fsmexit /\ UNCHANGED <<out, src>>
     ELSE IF c' = "/" THEN fsmgoto("line_comment") /\ UNCHANGED <<out, src>>
     ELSE IF c' = "*" THEN fsmgoto("block_comment") /\ UNCHANGED <<out, src>>
     ELSE fputc("/", pos) /\ fsmgoto("code_char")
  /\ UNCHANGED input
  /\ UNCHANGED nvars

\* string that takes a '/' for the start of a comment.
string_slashOpens ==
  /\ pc = "string"
  /\ Read("string")
  /\ IF c' = EOF THEN fsmexit /\ UNCHANGED <<out, src>>
     ELSE IF c' = BS THEN fsmgoto("escaped") /\ UNCHANGED <<out, src>>
     ELSE IF c' = "/" THEN fsmgoto("slash") /\ UNCHANGED <<out, src>>
     ELSE /\ fputc(c', pos')
          /\ IF c' = DQ THEN fsmgoto("code") ELSE fsmgoto("string")
  /\ UNCHANGED input
  /\ UNCHANGED nvars

string ==
  /\ pc = "string"
  /\ Read("string")
  /\ IF c' = EOF THEN fsmexit /\ UNCHANGED <<out, src>>
     ELSE IF c' = BS THEN fsmgoto("escaped") /\ UNCHANGED <<out, src>>
     ELSE /\ fputc(c', pos')
          /\ IF c' = DQ THEN fsmgoto("code") ELSE fsmgoto("string")
  /\ UNCHANGED input
  /\ UNCHANGED nvars

literal ==
  /\ pc = "literal"
  /\ Read("literal")
  /\ IF c' = EOF THEN fsmexit /\ UNCHANGED <<out, src>>
     ELSE IF c' = BS THEN fsmgoto("escaped") /\ UNCHANGED <<out, src>>
     ELSE /\ fputc(c', pos')
          /\ IF c' = SQ THEN fsmgoto("code") ELSE fsmgoto("literal")
  /\ UNCHANGED input
  /\ UNCHANGED nvars

\* escaped without the test for EOF after its fgetc.
escaped_noEofTest ==
  /\ pc = "escaped"
  /\ LET quote == c IN
       /\ Read("escaped")
       /\ out' = out \o <<quote, c'>>
       /\ src' = src \o <<pos, pos'>>
       /\ IF quote = DQ THEN fsmgoto("string") ELSE fsmgoto("literal")
  /\ UNCHANGED input
  /\ UNCHANGED nvars

\* escaped whose quote holds the kind of the literal, not the character read.
escaped_quoteKind ==
  /\ pc = "escaped"
  /\ LET quote == IF readIn[Len(readIn)] = "string" THEN DQ ELSE SQ IN
       /\ Read("escaped")
       /\ IF c' = EOF
          THEN /\ out' = Append(out, quote)
               /\ src' = Append(src, pos)
               /\ fsmexit
          ELSE /\ out' = out \o <<quote, c'>>
               /\ src' = src \o <<pos, pos'>>
               /\ IF quote = DQ THEN fsmgoto("string") ELSE fsmgoto("literal")
  /\ UNCHANGED input
  /\ UNCHANGED nvars

\* `quote = c` copies the character read last, the backslash that led here.
escaped ==
  /\ pc = "escaped"
  /\ LET quote == c IN
       /\ Read("escaped")
       /\ IF c' = EOF
          THEN /\ out' = Append(out, quote)
               /\ src' = Append(src, pos)
               /\ fsmexit
          ELSE /\ out' = out \o <<quote, c'>>
               /\ src' = src \o <<pos, pos'>>
               /\ IF quote = DQ THEN fsmgoto("string") ELSE fsmgoto("literal")
  /\ UNCHANGED input
  /\ UNCHANGED nvars

line_comment ==
  /\ pc = "line_comment"
  /\ Read("line_comment")
  /\ IF c' = EOF THEN fsmexit
     ELSE IF c' = NL THEN fsmgoto("code")
     ELSE fsmgoto("line_comment")
  /\ UNCHANGED <<input, out, src>>
  /\ UNCHANGED nvars

block_comment ==
  /\ pc = "block_comment"
  /\ Read("block_comment")
  /\ IF c' = EOF THEN fsmexit
     ELSE IF c' = "*" THEN fsmgoto("star")
     ELSE fsmgoto("block_comment")
  /\ UNCHANGED <<input, out, src>>
  /\ UNCHANGED nvars

\* star that sends the '/' closing the comment through code_char.
star_echoSlash ==
  /\ pc = "star"
  /\ Read("star")
  /\ IF c' = EOF THEN fsmexit
     ELSE IF c' = "/" THEN fsmgoto("code_char")
     ELSE fsmgoto("block_comment")
  /\ UNCHANGED <<input, out, src>>
  /\ UNCHANGED nvars

star ==
  /\ pc = "star"
  /\ Read("star")
  /\ IF c' = EOF THEN fsmexit
     ELSE IF c' = "/" THEN fsmgoto("code")
     ELSE fsmgoto("block_comment")
  /\ UNCHANGED <<input, out, src>>
  /\ UNCHANGED nvars

Next ==
  \/ START
  \/ code
  \/ code_char
  \/ slash
  \/ string
  \/ literal
  \/ escaped
  \/ line_comment
  \/ block_comment
  \/ star

Spec == Init /\ [][Next]_vars

\* uncomment() is sequential code: a state that is entered runs.
FairSpec == Spec /\ WF_vars(Next)

TypeOK ==
  /\ input \in Inputs
  /\ pos \in 0..Len(input)
  /\ pc \in States \cup {"fsm_exit"}
  /\ Len(out) = Len(src)
  /\ \A k \in 1..Len(src) : src[k] \in 1..pos
  /\ \A i \in 1..Len(readIn) : readIn[i] \in States

\* ============================================================ numbers.c
\* Longest argument enumerated exhaustively over NumAlphabet.
MaxNumLen == 4

\* How many bytes after the terminating NUL the model follows the scan.
MaxOver == 2

NUL == "NUL"

\* The character codes the scanner compares and subtracts.
Ascii ==
  [ch \in {NUL, "+", "-", "X", "Z", "q", "x", "z"} |->
     CASE ch = NUL -> 0 [] ch = "+" -> 43 [] ch = "-" -> 45 [] ch = "X" -> 88
       [] ch = "Z" -> 90 [] ch = "q" -> 113 [] ch = "x" -> 120 [] ch = "z" -> 122]
  @@ [ch \in {"0", "1", "2", "3", "4", "5", "6", "7", "8", "9"} |->
     CASE ch = "0" -> 48 [] ch = "1" -> 49 [] ch = "2" -> 50 [] ch = "3" -> 51
       [] ch = "4" -> 52 [] ch = "5" -> 53 [] ch = "6" -> 54 [] ch = "7" -> 55
       [] ch = "8" -> 56 [] ch = "9" -> 57]
  @@ [ch \in {"A", "B", "C", "D", "E", "F"} |->
     CASE ch = "A" -> 65 [] ch = "B" -> 66 [] ch = "C" -> 67 [] ch = "D" -> 68
       [] ch = "E" -> 69 [] ch = "F" -> 70]
  @@ [ch \in {"a", "b", "c", "d", "e", "f"} |->
     CASE ch = "a" -> 97 [] ch = "b" -> 98 [] ch = "c" -> 99 [] ch = "d" -> 100
       [] ch = "e" -> 101 [] ch = "f" -> 102]

NumAlphabet == {"+", "-", "0", "x", "7", "9", "a", "z"}

\* Arguments with the characters NumAlphabet leaves out.
NumSamples ==
  { <<"0", "X", "F", "F">>, <<"0", "x", "1", "f", "q">>,
    <<"Z", "1", "2">>, <<"q", "q", "4", "2">>, <<"-", "1", "2", "3", "4", "5">>,
    <<"-", "0", "x", "1", "F">>, <<"+", "0", "1", "7">>, <<"0", "1", "7", "8">>,
    <<"1", "0", "A">> }

NumInputs == (UNION { [1..n -> NumAlphabet] : n \in 0..MaxNumLen }) \cup NumSamples

\* What an out-of-bounds read may find after the terminating NUL.
OverBytes == {NUL, "q", "7"}

NumStates == {"START", "octal", "hex", "decimal"}

\* The `if (1) goto fsm_exit;` that fsmstate(s) puts before the label of s.
IfOf == [s \in NumStates |-> CASE s = "START" -> "if_START" [] s = "octal" -> "if_octal"
                               [] s = "hex" -> "if_hex" [] s = "decimal" -> "if_decimal"]

\* The statement that follows, in the text of the fsm block, the statement
\* at a location: a statement between states, the loops of the next
\* fsmstate (entered from the top they reach its `if`), or the end of the
\* block, after which main() goes on with `num = sign * num`.
NextStmt ==
  [l \in {"never", "START", "neither", "octal", "hex", "decimal"} |->
     CASE l = "never" -> "if_START"
       [] l = "START" -> "neither"
       [] l = "neither" -> "if_octal"
       [] l = "octal" -> "if_hex"
       [] l = "hex" -> "if_decimal"
       [] l = "decimal" -> "result"]

NumLocations ==
  {"fsm", "never", "neither", "fsm_exit", "result", "return"}
    \cup NumStates \cup {IfOf[s] : s \in NumStates}

\* The byte at index i of the memory `in` points to, t the bytes after the NUL.
Mem(t, i) ==
  IF i <= Len(arg) THEN arg[i]
  ELSE IF i = Len(arg) + 1 THEN NUL
  ELSE t[i - Len(arg) - 1]

\* The contents the memory after the NUL may have, up to index i, given
\* the bytes already seen there.
Tails(i) ==
  LET n == IF i - Len(arg) - 1 > Len(tail) THEN i - Len(arg) - 1 ELSE Len(tail)
  IN  { t \in [1..n -> OverBytes] : \A k \in 1..Len(tail) : t[k] = tail[k] }

\* Control moves to location l.
NumGoto(l) ==
  /\ npc' = l
  /\ trail' = Append(trail, l)

\* A state body with one `for` around it: break leaves the loop and control
\* goes on with the statement after the state.
fsmstate_break_oneFor(s) == NextStmt[s]

\* `break` in the body of state s leaves the inner `for(;;)`; that loop is
\* the body of the outer `for(;;)`, which runs it again, from its `if`.
fsmstate_break(s) == IfOf[s]

\* The end of the body of state s ends the `if` statement, the body of the
\* inner `for(;;)`, which runs it again.
fsmstate_end(s) == IfOf[s]

\* `fsm` with the condition of its `if` false: control enters the block.
fsm_elseBranch ==
  /\ npc = "fsm"
  /\ NumGoto("never")
  /\ UNCHANGED <<arg, cur, num, sign, err, tail, oob>>
  /\ UNCHANGED uvars

\* The uncomment() automaton is not running.
UncommentIdle ==
  /\ input = <<>>
  /\ pos = 0
  /\ pc = "none"
  /\ c = EOF
  /\ out = <<>>
  /\ src = <<>>
  /\ readIn = <<>>

\* main() up to the fsm block: num = 0, sign = 1, cur = in.
NumInit ==
  /\ UncommentIdle
  /\ arg \in NumInputs
  /\ cur = 1
  /\ num = 0
  /\ sign = 1
  /\ npc = "fsm"
  /\ err = <<>>
  /\ tail = <<>>
  /\ oob = FALSE
  /\ trail = <<"fsm">>

\* `if (1) {goto fsm_state_START; ...} else`
fsm ==
  /\ npc = "fsm"
  /\ NumGoto("START")
  /\ UNCHANGED <<arg, cur, num, sign, err, tail, oob>>
  /\ UNCHANGED uvars

\* `if (1) goto fsm_exit;` of fsmstate, reached when the loops around a
\* state body run again or are entered from the top.
fsmstate ==
  /\ npc \in {IfOf[s] : s \in NumStates}
  /\ NumGoto("fsm_exit")
  /\ UNCHANGED <<arg, cur, num, sign, err, tail, oob>>
  /\ UNCHANGED uvars

\* `fsm_exit: ;` ends the true branch of the `if` of fsm.
fsm_exit ==
  /\ npc = "fsm_exit"
  /\ NumGoto("result")
  /\ UNCHANGED <<arg, cur, num, sign, err, tail, oob>>
  /\ UNCHANGED uvars

\* The statements outside the state bodies: the two fprintf between the
\* states and, after the fsm block, `num = sign * num` with its fprintf.
statement ==
  /\ npc \in {"never", "neither", "result"}
  /\ IF npc = "result"
     THEN /\ num' = sign * num
          /\ err' = Append(err, <<"->", num'>>)
          /\ NumGoto("return")
     ELSE /\ err' = Append(err, <<IF npc = "never" THEN "Never printed!!"
                                                    ELSE "neither this!!">>)
          /\ NumGoto(NextStmt[npc])
          /\ UNCHANGED num
  /\ UNCHANGED <<arg, cur, sign, tail, oob>>
  /\ UNCHANGED uvars

numbers_START ==
  /\ npc = "START"
  /\ cur + 1 <= Len(arg) + 1 + MaxOver
  /\ \E t \in Tails(cur + 1) :
       LET ch == Mem(t, cur)
           junk == /\ ch \notin {"+", "-", "0", "Z", "z"}
                   /\ ~(Ascii["1"] <= Ascii[ch] /\ Ascii[ch] <= Ascii["9"])
       IN  /\ tail' = t
           /\ oob' = (oob \/ cur > Len(arg) + 1
                          \/ ((ch = "0" \/ junk) /\ cur + 1 > Len(arg) + 1))
           /\ IF ch = "+"
              THEN cur' = cur + 1 /\ NumGoto("decimal") /\ UNCHANGED sign
              ELSE IF ch = "-"
              THEN sign' = -1 /\ cur' = cur + 1 /\ NumGoto("decimal")
              ELSE IF ch = "0"
              THEN /\ IF Mem(t, cur + 1) = "x" \/ Mem(t, cur + 1) = "X"
                      THEN cur' = cur + 2 /\ NumGoto("hex")
                      ELSE cur' = cur + 1 /\ NumGoto("octal")
                   /\ UNCHANGED sign
              ELSE IF Ascii["1"] <= Ascii[ch] /\ Ascii[ch] <= Ascii["9"]
              THEN NumGoto("decimal") /\ UNCHANGED <<cur, sign>>
              ELSE IF ch = "Z"
              THEN NumGoto("fsm_exit") /\ UNCHANGED <<cur, sign>>
              ELSE IF ch = "z"
              THEN NumGoto(fsmstate_break("START")) /\ UNCHANGED <<cur, sign>>
              ELSE /\ cur' = cur + 1
                   /\ IF Mem(t, cur + 1) # NUL
                      THEN NumGoto("START")
                      ELSE NumGoto(fsmstate_end("START"))
                   /\ UNCHANGED sign
  /\ UNCHANGED <<arg, num, err>>
  /\ UNCHANGED uvars

octal ==
  /\ npc = "octal"
  /\ cur <= Len(arg) + 1 + MaxOver
  /\ \E t \in Tails(cur) :
       LET ch == Mem(t, cur) IN
         /\ tail' = t
         /\ oob' = (oob \/ cur > Len(arg) + 1)
         /\ err' = Append(err, <<"octal", ch>>)
         /\ IF Ascii["0"] <= Ascii[ch] /\ Ascii[ch] <= Ascii["7"]
            THEN /\ num' = num * 8 + (Ascii[ch] - Ascii["0"])
                 /\ cur' = cur + 1
                 /\ NumGoto("octal")
            ELSE NumGoto(fsmstate_end("octal")) /\ UNCHANGED <<num, cur>>
  /\ UNCHANGED <<arg, sign>>
  /\ UNCHANGED uvars

hex ==
  /\ npc = "hex"
  /\ cur <= Len(arg) + 1 + MaxOver
  /\ \E t \in Tails(cur) :
       LET ch == Mem(t, cur)
           hexdigit ==
             IF Ascii["0"] <= Ascii[ch] /\ Ascii[ch] <= Ascii["9"] THEN Ascii["0"]
             ELSE IF Ascii["A"] <= Ascii[ch] /\ Ascii[ch] <= Ascii["F"] THEN Ascii["A"] - 10
             ELSE IF Ascii["a"] <= Ascii[ch] /\ Ascii[ch] <= Ascii["f"] THEN Ascii["a"] - 10
             ELSE 0
       IN  /\ tail' = t
           /\ oob' = (oob \/ cur > Len(arg) + 1)
           /\ err' = Append(err, <<"hex", ch>>)
           /\ IF hexdigit # 0
              THEN /\ num' = num * 16 + (Ascii[ch] - hexdigit)
                   /\ cur' = cur + 1
                   /\ NumGoto("hex")
              ELSE NumGoto(fsmstate_end("hex")) /\ UNCHANGED <<num, cur>>
  /\ UNCHANGED <<arg, sign>>
  /\ UNCHANGED uvars

decimal ==
  /\ npc = "decimal"
  /\ cur <= Len(arg) + 1 + MaxOver
  /\ \E t \in Tails(cur) :
       LET ch == Mem(t, cur) IN
         /\ tail' = t
         /\ oob' = (oob \/ cur > Len(arg) + 1)
         /\ err' = Append(err, <<"decimal", ch>>)
         /\ IF Ascii["0"] <= Ascii[ch] /\ Ascii[ch] <= Ascii["9"]
            THEN /\ num' = num * 10 + (Ascii[ch] - Ascii["0"])
                 /\ cur' = cur + 1
                 /\ NumGoto("decimal")
            ELSE NumGoto(fsmstate_end("decimal")) /\ UNCHANGED <<num, cur>>
  /\ UNCHANGED <<arg, sign>>
  /\ UNCHANGED uvars

NumNext ==
  \/ fsm
  \/ fsmstate
  \/ fsm_exit
  \/ statement
  \/ numbers_START
  \/ octal
  \/ hex
  \/ decimal

NumSpec == NumInit /\ [][NumNext]_vars

NumTypeOK ==
  /\ arg \in NumInputs
  /\ cur \in 1..(Len(arg) + 2 + MaxOver)
  /\ sign \in {1, -1}
  /\ npc \in NumLocations
  /\ Len(tail) <= MaxOver
  /\ trail[Len(trail)] = npc

\* ------------------------------------------------- vocabulary of the claims
\* The scanner has finished with input[i]: it was read and, when it went
\* through code_char, written and dispatched.
Settled(i) == Len(readIn) > i \/ (pos = i /\ pc # "code_char")

\* The state the scanner is in once it has finished with input[i].
After(i) == IF Len(readIn) > i THEN readIn[i + 1] ELSE pc

\* The positions of out that copy input[i].
Copies(i) == { k \in 1..Len(src) : src[k] = i }

\* What was written for the input positions i..j, in the order written, as
\* characters and as the positions they copy.
EmittedFor(i, j) ==
  LET idx == SelectSeq([k \in 1..Len(out) |-> k], LAMBDA k : src[k] \in i..j)
  IN  [n \in 1..Len(idx) |-> out[idx[n]]]

SourcesFor(i, j) == SelectSeq(src, LAMBDA p : p \in i..j)

RECURSIVE ScanQuote(_, _)
\* The index of the first double quote of s at or after k that no backslash
\* escapes, 0 when there is none: the lexical end of a string literal.
ScanQuote(s, k) ==
  IF k > Len(s) THEN 0
  ELSE IF s[k] = BS THEN ScanQuote(s, k + 2)
  ELSE IF s[k] = DQ THEN k
  ELSE ScanQuote(s, k + 1)

ClosingQuote(s, i) == ScanQuote(s, i + 1)

RECURSIVE FirstClose(_, _)
\* The index of the star of the first `*/` of s at or after k, 0 when none.
FirstClose(s, k) ==
  IF k + 1 > Len(s) THEN 0
  ELSE IF s[k] = "*" /\ s[k + 1] = "/" THEN k
  ELSE FirstClose(s, k + 1)

\* input[i] is a double quote that Code dispatched: it opens a string literal.
OpensString(i) == i \in 1..pos /\ input[i] = DQ /\ readIn[i] \in {"code", "slash"}

\* input[i], input[i+1] is a block-comment opener whose slash Code read.
OpensBlock(i) ==
  i \in 1..(pos - 1) /\ readIn[i] = "code" /\ input[i] = "/" /\ input[i + 1] = "*"

\* input[i] is a slash Code read and input[i+1] shows it opens no comment.
LoneSlash(i) ==
  i \in 1..(pos - 1) /\ readIn[i] = "code" /\ input[i] = "/"
    /\ input[i + 1] \notin {"/", "*"}

\* The state Code moves to on a character that is not a slash.
CodeDispatch(ch) ==
  IF ch = DQ THEN "string" ELSE IF ch = SQ THEN "literal" ELSE "code"

\* ------------------------------------------------------------------ C1
\* C1: once the escaped state has consumed a character, the scanner is in the
\* literal state that read the backslash: string for a backslash read in
\* string, literal for one read in literal, for every input and position.
C1_EscapeReturnsToItsLiteral ==
  \A i \in 2..pos :
    (readIn[i] = "escaped" /\ Settled(i)) => After(i) = readIn[i - 1]

\* ------------------------------------------------------------------ C2
\* C2: an escaped quote does not end a string literal and right after the
\* closing unescaped quote the scanner is in code, so that a // comment that
\* follows is removed; strip of `x = "a\"b"; // c` is `x = "a\"b"; `.
C2_EscapedQuoteKeepsTracking ==
  /\ \A i \in 1..pos :
       OpensString(i) =>
         LET j == ClosingQuote(input, i)
         IN  (j # 0 /\ j <= pos /\ Settled(j)) => After(j) = "code"
  /\ (pc = "fsm_exit" /\ input = InEscapedQuote)
       => out = SubSeq(InEscapedQuote, 1, 12)

\* ------------------------------------------------------------------ C3
\* C3: a newline read in line_comment is written and leads to code, so the
\* newlines outside block comments are as many in the output as in the
\* input; strip("a//comment\nb") is "a\nb".
C3_LineCommentKeepsNewline ==
  /\ \A i \in 1..pos :
       (readIn[i] = "line_comment" /\ input[i] = NL) =>
         /\ \E k \in Copies(i) : out[k] = NL
         /\ Settled(i) => After(i) = "code"
  /\ pc = "fsm_exit" =>
       Cardinality({ k \in 1..Len(out) : out[k] = NL })
         = Cardinality({ i \in 1..pos :
             input[i] = NL /\ readIn[i] \notin {"block_comment", "star"} })
  /\ (pc = "fsm_exit" /\ input = InLineComment) => out = <<"a", NL, "b">>

\* ------------------------------------------------------------------ C4
\* C4: after a block-comment opener read in code the scanner is back in code
\* right after the first `*/` that follows the opener, whatever the body is,
\* `/***/` included, and what follows is processed as code.
C4_BlockCommentEndsAtFirstClose ==
  /\ \A i \in 1..pos :
       OpensBlock(i) =>
         LET j == FirstClose(input, i + 2)
         IN  (j # 0 /\ j + 1 <= pos /\ Settled(j + 1)) => After(j + 1) = "code"
  /\ (pc = "fsm_exit" /\ input = InBlockStars) => out = <<"a", "b">>

\* ------------------------------------------------------------------ C5
\* C5: for a balanced string literal, opened by a double quote dispatched by
\* code and closed by an unescaped double quote, the bytes written for the
\* region are the input bytes of the region, in order, none dropped.
C5_LiteralPreserved ==
  \A i \in 1..pos :
    OpensString(i) =>
      LET j == ClosingQuote(input, i)
      IN  (j # 0 /\ j <= pos /\ Settled(j)) =>
            /\ EmittedFor(i, j) = SubSeq(input, i, j)
            /\ SourcesFor(i, j) = [n \in 1..(j - i + 1) |-> i + n - 1]

\* ------------------------------------------------------------------ C6
\* C6: a `/` or `*` read in string or in literal is written and leaves the
\* scanner in the same literal state; it never leads to slash, line_comment,
\* block_comment or star.
C6_MarkersInertInLiterals ==
  \A i \in 1..pos :
    (readIn[i] \in {"string", "literal"} /\ input[i] \in {"/", "*"}) =>
      /\ Cardinality(Copies(i)) = 1
      /\ \A k \in Copies(i) : out[k] = input[i]
      /\ After(i) \notin {"slash", "line_comment", "block_comment", "star"}
      /\ Settled(i) => After(i) = readIn[i]

C6_Witness ==
  \E i \in 1..(pos - 1) :
    /\ readIn[i] = "string" /\ input[i] = "/"
    /\ readIn[i + 1] = "string" /\ input[i + 1] = "*"
    /\ pc = "string"

\* ------------------------------------------------------------------ C7
\* C7: a `/` read in code and followed by a character other than `/`, `*`
\* and end-of-stream is written once, then the character once, right after
\* it, and the character is dispatched as code dispatches it: to string for
\* a double quote, to literal for a single quote, to code otherwise;
\* strip("a/b") is "a/b".
C7_DivisionIsFlushed ==
  /\ \A i \in 1..pos :
       LoneSlash(i) =>
         /\ Cardinality(Copies(i)) = 1
         /\ \A k \in Copies(i) : out[k] = "/"
         /\ IF Settled(i + 1)
            THEN /\ Cardinality(Copies(i + 1)) = 1
                 /\ \A k \in Copies(i) :
                      k + 1 \in Copies(i + 1) /\ out[k + 1] = input[i + 1]
                 /\ After(i + 1) = CodeDispatch(input[i + 1])
            ELSE Copies(i + 1) = {}
  /\ (pc = "fsm_exit" /\ input = InDivision) => out = InDivision

C7_Witness ==
  \E i \in 1..pos :
    LoneSlash(i) /\ input[i + 1] = SQ /\ pos = i + 1 /\ pc = "literal"

\* ------------------------------------------------------------------ C8
\* C8: a double quote right after a lone `/` opens a string literal and a
\* single quote a character literal: the scanner is in string, respectively
\* literal, and the comment markers inside are copied; strip of `/"//x"` is
\* the input unchanged.
C8_LiteralAfterLoneSlash ==
  /\ (pos >= 2 /\ input[1] = "/" /\ input[2] = DQ /\ Settled(2))
       => After(2) = "string"
  /\ (pos >= 2 /\ input[1] = "/" /\ input[2] = SQ /\ Settled(2))
       => After(2) = "literal"
  /\ (pc = "fsm_exit" /\ input \in {InSlashString, InSlashChar}) => out = input

C8_Witness == pc = "fsm_exit" /\ input = InSlashString /\ out = InSlashString

\* ------------------------------------------------------------------ C9
\* C9: on an input with no `/`, no double quote and no single quote the
\* output is the input: at every moment what was read and dispatched, at the
\* exit the whole input.
NoMarkers(s) == \A i \in 1..Len(s) : s[i] \notin {"/", DQ, SQ}

C9_IdentityOnPlainText ==
  NoMarkers(input) =>
    /\ pc # "code_char" => out = SubSeq(input, 1, pos)
    /\ pc = "fsm_exit" => out = input

C9_Witness ==
  /\ pc = "fsm_exit"
  /\ NoMarkers(input)
  /\ Len(input) >= 3
  /\ \E i, j \in 1..Len(input) : input[i] = BS /\ input[j] = "*"

\* ----------------------------------------------------------------- C10
\* C10: every run reaches the exit, after one fgetc call for each input
\* character and one that returns end-of-stream, whatever state meets the
\* end-of-stream; when it is met inside a block comment nothing from the
\* opener on was written, and strip("code /* unterminated") is "code ".
C10_EndOfStreamTerminates ==
  /\ <>(pc = "fsm_exit")
  /\ [](Len(readIn) <= Len(input) + 1)
  /\ [](pc = "fsm_exit" =>
          /\ pos = Len(input)
          /\ Len(readIn) = Len(input) + 1
          /\ c = EOF)
  /\ []((pc = "fsm_exit" /\ readIn[Len(readIn)] \in {"block_comment", "star"}) =>
          \E i \in 1..pos :
            /\ OpensBlock(i)
            /\ \A n \in (i + 2)..Len(readIn) : readIn[n] \in {"block_comment", "star"}
            /\ \A k \in 1..Len(src) : src[k] < i)
  /\ []((pc = "fsm_exit" /\ input = InUnterminated) => out = SubSeq(InUnterminated, 1, 5))

C10_Witness ==
  /\ pc = "fsm_exit"
  /\ input = InUnterminated
  /\ readIn[Len(readIn)] = "block_comment"

\* ----------------------------------------------------------------- C11
\* C11: a `/` read in code as the last character of the input is never
\* written, while a `/` read in code and followed by a character other than
\* `/` and `*` is written.
C11_TrailingSlashDropped ==
  \A i \in 1..pos :
    (readIn[i] = "code" /\ input[i] = "/") =>
      /\ i = Len(input) => Copies(i) = {}
      /\ LoneSlash(i) => \E k \in Copies(i) : out[k] = "/"

C11_Witness ==
  /\ pc = "fsm_exit"
  /\ Len(input) >= 3
  /\ input[Len(input)] = "/" /\ readIn[Len(input)] = "code"
  /\ LoneSlash(1)

\* ----------------------------------------------------------------- C12
\* C12: what was written so far is an order-preserving subsequence of what
\* was read so far: every written character copies one character already
\* read, the copied positions increase strictly (none is written twice),
\* and the `/` of slash and the backslash of escaped copy the character
\* that caused the transition.
RECURSIVE IsSubseq(_, _)
IsSubseq(a, b) ==
  IF a = <<>> THEN TRUE
  ELSE IF b = <<>> THEN FALSE
  ELSE IF Head(a) = Head(b) THEN IsSubseq(Tail(a), Tail(b))
  ELSE IsSubseq(a, Tail(b))

C12_OutputIsSubsequence ==
  /\ Len(src) = Len(out)
  /\ \A k \in 1..Len(out) : src[k] \in 1..pos /\ out[k] = input[src[k]]
  /\ \A k \in 1..(Len(out) - 1) : src[k] < src[k + 1]
  /\ IsSubseq(out, SubSeq(input, 1, pos))
  /\ pos <= Len(readIn) /\ Len(readIn) <= pos + 1

C12_Witness ==
  /\ pc = "fsm_exit"
  /\ \E i, j \in 1..pos :
       /\ readIn[i] = "slash" /\ Copies(i - 1) # {}
       /\ readIn[j] = "escaped" /\ Copies(j - 1) # {}

\* ----------------------------------------------------------------- C13
\* uncomment() as a function from the content of `in` to the content of
\* `out`: Run(st, s, p, ch, o) is what is written in the end when control
\* is at state st with p characters of s taken, c = ch and o written.
Getc(s, p) == IF p < Len(s) THEN s[p + 1] ELSE EOF

\* The step of the slash state with the '/' written also at end-of-stream.
SlashStep_flushAtEof(g, o) ==
  IF g = EOF THEN [to |-> "fsm_exit", o |-> Append(o, "/")]
  ELSE IF g = "/" THEN [to |-> "line_comment", o |-> o]
  ELSE IF g = "*" THEN [to |-> "block_comment", o |-> o]
  ELSE [to |-> "code_char", o |-> Append(o, "/")]

\* The step of the slash state on the value g of fgetc: the state it jumps
\* to and the output after it.
SlashStep(g, o) ==
  IF g = EOF THEN [to |-> "fsm_exit", o |-> o]
  ELSE IF g = "/" THEN [to |-> "line_comment", o |-> o]
  ELSE IF g = "*" THEN [to |-> "block_comment", o |-> o]
  ELSE [to |-> "code_char", o |-> Append(o, "/")]

RECURSIVE Run(_, _, _, _, _)
Run(st, s, p, ch, o) ==
  LET g == Getc(s, p) IN
  CASE st = "fsm_exit" -> o
    [] st = "START" -> Run("code", s, p, ch, o)
    [] st = "code" ->
         IF g = EOF THEN Run("fsm_exit", s, p, g, o)
         ELSE IF g = "/" THEN Run("slash", s, p + 1, g, o)
         ELSE Run("code_char", s, p + 1, g, o)
    [] st = "code_char" ->
         IF ch = DQ THEN Run("string", s, p, ch, Append(o, ch))
         ELSE IF ch = SQ THEN Run("literal", s, p, ch, Append(o, ch))
         ELSE Run("code", s, p, ch, Append(o, ch))
    [] st = "slash" ->
         LET r == SlashStep(g, o)
         IN  Run(r.to, s, IF g = EOF THEN p ELSE p + 1, g, r.o)
    [] st = "string" ->
         IF g = EOF THEN Run("fsm_exit", s, p, g, o)
         ELSE IF g = BS THEN Run("escaped", s, p + 1, g, o)
         ELSE IF g = DQ THEN Run("code", s, p + 1, g, Append(o, g))
         ELSE Run("string", s, p + 1, g, Append(o, g))
    [] st = "literal" ->
         IF g = EOF THEN Run("fsm_exit", s, p, g, o)
         ELSE IF g = BS THEN Run("escaped", s, p + 1, g, o)
         ELSE IF g = SQ THEN Run("code", s, p + 1, g, Append(o, g))
         ELSE Run("literal", s, p + 1, g, Append(o, g))
    [] st = "escaped" ->
         LET quote == ch IN
           IF g = EOF THEN Run("fsm_exit", s, p, g, Append(o, quote))
           ELSE IF quote = DQ THEN Run("string", s, p + 1, g, o \o <<quote, g>>)
           ELSE Run("literal", s, p + 1, g, o \o <<quote, g>>)
    [] st = "line_comment" ->
         IF g = EOF THEN Run("fsm_exit", s, p, g, o)
         ELSE IF g = NL THEN Run("code", s, p + 1, g, o)
         ELSE Run("line_comment", s, p + 1, g, o)
    [] st = "block_comment" ->
         IF g = EOF THEN Run("fsm_exit", s, p, g, o)
         ELSE IF g = "*" THEN Run("star", s, p + 1, g, o)
         ELSE Run("block_comment", s, p + 1, g, o)
    [] st = "star" ->
         IF g = EOF THEN Run("fsm_exit", s, p, g, o)
         ELSE IF g = "/" THEN Run("code", s, p + 1, g, o)
         ELSE Run("block_comment", s, p + 1, g, o)

uncomment(s) == Run("START", s, 0, EOF, <<>>)

\* C13: stripped text is a fixed point: for every input s over the alphabet
\* `/`, `*`, both quotes, backslash, newline and an ordinary character,
\* strip(strip(s)) = strip(s).  At the exit out is strip(input).
C13_StripIsIdempotent ==
  pc = "fsm_exit" => (out = uncomment(input) /\ uncomment(out) = out)

C13_Witness ==
  /\ pc = "fsm_exit"
  /\ Len(input) = MaxLen
  /\ out # input /\ out # <<>>
  /\ \E i \in 1..Len(out) : out[i] = "/"

\* ----------------------------------------------------------------- C14
\* C14: no step taken in block_comment or star, and no step taken in
\* line_comment on a character other than newline, changes the output; a
\* block comment that spans lines is removed with its newlines:
\* strip("a/*x\ny*/b") is "ab".
C14_CommentContentNotEmitted ==
  /\ [][ (\/ pc \in {"block_comment", "star"}
          \/ (pc = "line_comment" /\ c' # NL)) => (out' = out /\ src' = src) ]_vars
  /\ [](\A i \in 1..pos :
          (\/ readIn[i] \in {"block_comment", "star"}
           \/ (readIn[i] = "line_comment" /\ input[i] # NL)) => Copies(i) = {})
  /\ []((pc = "fsm_exit" /\ input = InBlockLines) => out = <<"a", "b">>)

C14_Witness == pc = "fsm_exit" /\ input = InBlockLines /\ out = <<"a", "b">>

C16_OnlyStatesRun ==
  /\ trail[1] = "fsm"
  /\ Len(trail) >= 2 => trail[2] = "START"
  /\ \A k \in 1..Len(trail) : trail[k] \notin {"never", "neither"}
  /\ \A k \in 1..Len(err) : err[k][1] \notin {"Never printed!!", "neither this!!"}

C16_Witness ==
  /\ npc = "return"
  /\ \E k \in 1..Len(trail) : trail[k] = "hex"
  /\ \E k \in 1..Len(trail) : trail[k] = "if_hex"
  /\ num > 0

\* ----------------------------------------------------------------- C17
\* The value the claim gives an argument: an optional sign, the base from
\* the prefix of the literal, the digits of the longest run valid in it.
DecDigits == {"0", "1", "2", "3", "4", "5", "6", "7", "8", "9"}

HasSign(s) == s # <<>> /\ s[1] \in {"+", "-"}

Literal(s) == IF HasSign(s) THEN Tail(s) ELSE s

IsLiteralInput(s) == Literal(s) # <<>> /\ Literal(s)[1] \in DecDigits

BaseOf(l) ==
  IF l[1] = "0" /\ Len(l) >= 2 /\ l[2] \in {"x", "X"} THEN 16
  ELSE IF l[1] = "0" THEN 8
  ELSE 10

DigitsOf(l) == IF BaseOf(l) = 16 THEN SubSeq(l, 3, Len(l)) ELSE l

DigitValue(ch) ==
  IF ch \in DecDigits THEN Ascii[ch] - 48
  ELSE IF ch \in {"A", "B", "C", "D", "E", "F"} THEN Ascii[ch] - 55
  ELSE IF ch \in {"a", "b", "c", "d", "e", "f"} THEN Ascii[ch] - 87
  ELSE 99

RECURSIVE Accumulate(_, _, _)
Accumulate(d, base, v) ==
  IF d = <<>> \/ DigitValue(Head(d)) >= base THEN v
  ELSE Accumulate(Tail(d), base, v * base + DigitValue(Head(d)))

RefValue(s) ==
  (IF s[1] = "-" THEN -1 ELSE 1)
    * Accumulate(DigitsOf(Literal(s)), BaseOf(Literal(s)), 0)

\* C17: for an argument that is an optional sign followed by an integer
\* literal the result is the value of the literal in the base its prefix
\* selects (0x/0X hex, leading 0 octal, else decimal), negated after `-`.
C17_ParsesSignedLiteral ==
  (npc = "return" /\ IsLiteralInput(arg)) => num = RefValue(arg)

\* ----------------------------------------------------------------- C18
\* C18: for every argument, the empty string included, cur never moves past
\* the terminating NUL and no byte after the terminator is read.
C18_ScanStaysInString == cur <= Len(arg) + 1 /\ ~oob

====
